---- MODULE Spec2Model ----
(***************************************************************************)
(* Model of the task lifecycle of src/src/index.js: run and resume against *)
(* the key/value storage and the external suspend/resume engine, with the  *)
(* text functions they call (transform, normalize, reconstruct).           *)
(*                                                                         *)
(* Text is a sequence of one-character strings.  JavaScript values are     *)
(* tagged records.  Every action is one continuation of an async function: *)
(* the code from the completion of one awaited call up to the next await.  *)
(***************************************************************************)
EXTENDS Integers, Sequences, FiniteSets, TLC

(***************************************************************************)
(* Bounds of the model.                                                    *)
(***************************************************************************)
\* longest key list and value sequence given to reconstruct on its own
MaxLen == 2
\* largest number of Specs the registry is grown to
MaxSpecs == 1

(***************************************************************************)
(* Text helpers (String.prototype methods used by the source).             *)
(***************************************************************************)
IsSpace(ch) == ch \in {" ", "\n", "\t"}

SubStr(s, a, b) == IF a > b THEN <<>> ELSE SubSeq(s, a, b)

\* the indices of the characters of s that are no white space
Inked(s) == {i \in 1..Len(s) : ~IsSpace(s[i])}

Min(S) == CHOOSE x \in S : \A y \in S : x <= y

Max(S) == CHOOSE x \in S : \A y \in S : x >= y

Trim(s) == IF Inked(s) = {} THEN <<>> ELSE SubSeq(s, Min(Inked(s)), Max(Inked(s)))

StartsWithAt(s, i, lit) == /\ i + Len(lit) - 1 <= Len(s)
                           /\ SubStr(s, i, i + Len(lit) - 1) = lit

Includes(s, lit) == \E i \in 1..Len(s) : StartsWithAt(s, i, lit)

\* indexOf in the place of lastIndexOf
FirstIndexOf(s, lit) == IF Includes(s, lit) THEN Min({i \in 1..Len(s) : StartsWithAt(s, i, lit)}) ELSE 0

\* 1-based index of the last occurrence of lit in s, 0 when there is none
LastIndexOf(s, lit) == IF Includes(s, lit) THEN Max({i \in 1..Len(s) : StartsWithAt(s, i, lit)}) ELSE 0

\* s.replace(/;*$/, '')
StripTerminators(s) == LET kept == {i \in 1..Len(s) : s[i] # ";"} IN IF kept = {} THEN <<>> ELSE SubSeq(s, 1, Max(kept))

\* s.split(',')
Commas(s) == {i \in 1..Len(s) : s[i] = ","}

\* the index of the k-th comma of s; 0 for k = 0 and Len(s) + 1 past the last one
CommaAt(s, k) == IF k = 0 THEN 0 ELSE IF k > Cardinality(Commas(s)) THEN Len(s) + 1 ELSE CHOOSE i \in Commas(s) : Cardinality({j \in Commas(s) : j <= i}) = k

SplitComma(s) == [k \in 1..(Cardinality(Commas(s)) + 1) |-> SubStr(s, CommaAt(s, k - 1) + 1, CommaAt(s, k) - 1)]

RECURSIVE MapTrimFilter(_)
MapTrimFilter(parts) == IF parts = <<>> THEN <<>> ELSE IF Trim(Head(parts)) = <<>> THEN MapTrimFilter(Tail(parts)) ELSE <<Trim(Head(parts))>> \o MapTrimFilter(Tail(parts))

\* keys.join(', ')
RECURSIVE JoinCommaSpace(_)
JoinCommaSpace(ks) == IF ks = <<>> THEN <<>> ELSE IF Len(ks) = 1 THEN Head(ks) ELSE Head(ks) \o <<",", " ">> \o JoinCommaSpace(Tail(ks))

(***************************************************************************)
(* The Spec registry and the Call Rewriter (transform).  A registered      *)
(* pattern's regex  name\.call\.path\s*\(([^)]*?)\)  is kept as the text   *)
(* it matches literally, name "." callPath.                                *)
(***************************************************************************)
Lit_fetch == <<"f", "e", "t", "c", "h", "(", "\"">>

Lit_close == <<"\"", ")">>

Lit_args == <<"?", "a", "r", "g", "s", "=", "\"", "+", "e", "n", "c", "o", "d", "e", "U", "R", "I", "C", "o", "m", "p", "o", "n", "e", "n", "t", "(", "J", "S", "O", "N", ".", "s", "t", "r", "i", "n", "g", "i", "f", "y", "(", "[">>

Lit_argsEnd == <<"]", ")", ")", ")">>

PatternLiteral(name, callPath) == name \o <<".">> \o callPath

\* the first index at or after k that holds no white space, Len(s) + 1 when there is none
SkipSpaces(s, k) == Min({i \in k..Len(s) : ~IsSpace(s[i])} \cup {Len(s) + 1})

\* index of the first ")" at or after k, 0 when there is none
FindClose(s, k) == LET closes == {i \in k..Len(s) : s[i] = ")"} IN IF closes = {} THEN 0 ELSE Min(closes)

\* the regex matched at position i: <<index of "(", index of ")">>, or <<0, 0>>
MatchAt(s, i, lit) == IF ~StartsWithAt(s, i, lit) THEN <<0, 0>> ELSE LET k == SkipSpaces(s, i + Len(lit)) IN IF k > Len(s) \/ s[k] # "(" THEN <<0, 0>> ELSE LET j == FindClose(s, k + 1) IN IF j = 0 THEN <<0, 0>> ELSE <<k, j>>

\* a callback that tests the captured text for emptiness without trimming it
ReplacementUntrimmed(base, urlPath, args) == IF args = <<>> THEN Lit_fetch \o base \o <<"/">> \o urlPath \o Lit_close ELSE Lit_fetch \o base \o <<"/">> \o urlPath \o Lit_args \o Trim(args) \o Lit_argsEnd

\* the replacement callback of transform
Replacement(base, urlPath, args) == LET argsStr == Trim(args) IN IF argsStr = <<>> THEN Lit_fetch \o base \o <<"/">> \o urlPath \o Lit_close ELSE Lit_fetch \o base \o <<"/">> \o urlPath \o Lit_args \o argsStr \o Lit_argsEnd

\* the start of the leftmost match at or after i, 0 when there is none
NextMatch(s, i, lit) == LET starts == {k \in i..Len(s) : MatchAt(s, k, lit)[1] # 0} IN IF starts = {} THEN 0 ELSE Min(starts)

\* a replace whose regex lacks the g flag: the leftmost match only
ReplaceFirst(s, i, lit, base, urlPath) == IF NextMatch(s, i, lit) = 0 THEN SubStr(s, i, Len(s)) ELSE LET k == NextMatch(s, i, lit) IN SubStr(s, i, k - 1) \o Replacement(base, urlPath, SubStr(s, MatchAt(s, k, lit)[1] + 1, MatchAt(s, k, lit)[2] - 1)) \o SubStr(s, MatchAt(s, k, lit)[2] + 1, Len(s))

\* result.replace(regex, callback) with a global regex, scanning from i
RECURSIVE ReplaceAll(_, _, _, _, _)
ReplaceAll(s, i, lit, base, urlPath) == IF NextMatch(s, i, lit) = 0 THEN SubStr(s, i, Len(s)) ELSE CHOOSE out \in {SubStr(s, i, k - 1) \o Replacement(base, urlPath, SubStr(s, MatchAt(s, k, lit)[1] + 1, MatchAt(s, k, lit)[2] - 1)) \o ReplaceAll(s, MatchAt(s, k, lit)[2] + 1, lit, base, urlPath) : k \in {NextMatch(s, i, lit)}} : TRUE

\* the inner loop of transform over the patterns of one Spec, from the i-th on
RECURSIVE ApplyPatterns(_, _, _)
ApplyPatterns(s, sp, i) == IF i > Len(sp.patterns) THEN s ELSE CHOOSE out \in {ApplyPatterns(t, sp, i + 1) : t \in {ReplaceAll(s, 1, PatternLiteral(sp.name, sp.patterns[i].callPath), sp.base, sp.patterns[i].urlPath)}} : TRUE

\* the outer loop of transform over the registry reg, from the i-th Spec on
RECURSIVE TransformFrom(_, _, _)
TransformFrom(code, reg, i) == IF i > Len(reg) THEN code ELSE CHOOSE out \in {TransformFrom(t, reg, i + 1) : t \in {ApplyPatterns(code, reg[i], 1)}} : TRUE

transformWith(code, reg) == TransformFrom(code, reg, 1)

(***************************************************************************)
(* The Tokenizing Normalizer (normalize).                                  *)
(***************************************************************************)
\* the template-literal delimiter (U+0060), which a TLA+ string cannot hold
Backtick == "BACKTICK"

ScanInit == [result |-> <<>>, inString |-> FALSE, stringChar |-> "", inTemplate |-> FALSE]

\* a scan that closes a literal at its delimiter whatever precedes it
ScanStepNoLookback(st, char, prev) == LET q == IF ~st.inString /\ ~st.inTemplate /\ char \in {"\"", "'"} THEN [st EXCEPT !.inString = TRUE, !.stringChar = char] ELSE IF st.inString /\ char = st.stringChar THEN [st EXCEPT !.inString = FALSE] ELSE IF ~st.inString /\ ~st.inTemplate /\ char = Backtick THEN [st EXCEPT !.inTemplate = TRUE] ELSE IF st.inTemplate /\ char = Backtick THEN [st EXCEPT !.inTemplate = FALSE] ELSE st IN IF ~q.inString /\ ~q.inTemplate /\ char = "\n" THEN LET t == Trim(q.result) IN IF t # <<>> /\ t[Len(t)] \notin {";", "{", ","} THEN [q EXCEPT !.result = Append(q.result, ";")] ELSE q ELSE [q EXCEPT !.result = Append(q.result, char)]

\* one iteration of the character scan: st = [result, inString, stringChar, inTemplate]
ScanStep(st, char, prev) == LET q == IF ~st.inString /\ ~st.inTemplate /\ char \in {"\"", "'"} THEN [st EXCEPT !.inString = TRUE, !.stringChar = char] ELSE IF st.inString /\ char = st.stringChar /\ prev # "\\" THEN [st EXCEPT !.inString = FALSE] ELSE IF ~st.inString /\ ~st.inTemplate /\ char = Backtick THEN [st EXCEPT !.inTemplate = TRUE] ELSE IF st.inTemplate /\ char = Backtick /\ prev # "\\" THEN [st EXCEPT !.inTemplate = FALSE] ELSE st IN IF ~q.inString /\ ~q.inTemplate /\ char = "\n" THEN LET t == Trim(q.result) IN IF t # <<>> /\ t[Len(t)] \notin {";", "{", ","} THEN [q EXCEPT !.result = Append(q.result, ";")] ELSE q ELSE [q EXCEPT !.result = Append(q.result, char)]

\* the loop of the scan over c[lo..hi] from scan state st, left to right: the left half, then the right half from where it ends
RECURSIVE ScanRange(_, _, _, _)
ScanRange(c, lo, hi, st) == IF lo > hi THEN st ELSE IF lo = hi THEN ScanStep(st, c[lo], IF lo = 1 THEN "" ELSE c[lo - 1]) ELSE CHOOSE out \in {ScanRange(c, ((lo + hi) \div 2) + 1, hi, mid) : mid \in {ScanRange(c, lo, (lo + hi) \div 2, st)}} : TRUE

Scan(c) == ScanRange(c, 1, Len(c), ScanInit)

Lit_return == <<"r", "e", "t", "u", "r", "n", " ">>

\* keys of a normalized script: null, or an ordered list of identifiers
NullKeys == [null |-> TRUE]

KeyList(l) == [null |-> FALSE, list |-> l]

\* the return-shape extraction on the scanned text
ExtractReturn(result) == IF ~Includes(result, Lit_return) THEN [code |-> result, keys |-> NullKeys] ELSE LET i == LastIndexOf(result, Lit_return) expr == Trim(StripTerminators(SubStr(result, i + 7, Len(result)))) inner == Trim(SubStr(expr, 2, Len(expr) - 1)) shorthand == expr # <<>> /\ Head(expr) = "{" /\ expr[Len(expr)] = "}" /\ inner # <<>> /\ ~Includes(inner, <<":">>) ks == MapTrimFilter(SplitComma(inner)) IN IF shorthand THEN [code |-> SubStr(result, 1, i - 1) \o <<"[">> \o JoinCommaSpace(ks) \o <<"]">>, keys |-> KeyList(ks)] ELSE [code |-> SubStr(result, 1, i - 1) \o expr, keys |-> NullKeys]

normalizeWith(code, reg) == CHOOSE out \in {ExtractReturn(Scan(c).result) : c \in {transformWith(Trim(code), reg)}} : TRUE

(***************************************************************************)
(* reconstruct.  A JavaScript value is [kind |-> "array", items |-> seq],  *)
(* [kind |-> "object", fields |-> function from key to value] or           *)
(* [kind |-> "scalar", val |-> v]; Undefined is the value of a missing     *)
(* array element.                                                          *)
(***************************************************************************)
Undefined == "undefined"

\* the values array elements and variables take
Values == {"v1", "v2"}

Arr(items) == [kind |-> "array", items |-> items]

Obj(fields) == [kind |-> "object", fields |-> fields]

Scalar(v) == [kind |-> "scalar", val |-> v]

\* a slip in the index: result[i + 1]
ItemAtNext(items, i) == IF i + 1 <= Len(items) THEN items[i + 1] ELSE Undefined

\* result[i] of a JavaScript array, i counted from 1
ItemAt(items, i) == IF i <= Len(items) THEN items[i] ELSE Undefined

\* Object.fromEntries(keys.map((k, i) => [k, result[i]])): a later entry of a key replaces an earlier one
FromEntries(ks, items) == [k \in {ks[i] : i \in 1..Len(ks)} |-> ItemAt(items, CHOOSE i \in 1..Len(ks) : ks[i] = k /\ \A j \in (i + 1)..Len(ks) : ks[j] # k)]

reconstruct(result, keys) == IF keys.null \/ result.kind # "array" THEN result ELSE Obj(FromEntries(keys.list, result.items))

\* reading an object's values back in the order of a key list
Flatten(obj, ks) == [i \in 1..Len(ks) |-> obj.fields[ks[i]]]

(***************************************************************************)
(* InMemoryStorage: a Map from task id to snapshot, kept as a function     *)
(* whose domain is the set of ids present.                                 *)
(***************************************************************************)
\* what Map.prototype.get gives for an absent key
Undef == [undefined |-> TRUE]

StorageGet(data, id) == IF id \in DOMAIN data THEN data[id] ELSE Undef

\* a storage with one slot that all ids share
StorageSetShared(data, id, value) == [k \in DOMAIN data \cup {id} |-> value]

\* a set that keeps the value an id already has
StorageSetIfAbsent(data, id, value) == [k \in DOMAIN data \cup {id} |-> IF k \in DOMAIN data THEN data[k] ELSE value]

StorageSet(data, id, value) == [k \in DOMAIN data \cup {id} |-> IF k = id THEN value ELSE data[k]]

\* a del that removes nothing
StorageDelKeeps(data, id) == data

StorageDel(data, id) == [k \in DOMAIN data \ {id} |-> data[k]]

\* a JavaScript Map as its ordered entries <<key, value>>, keys unique
\* a map whose set keeps the value a key already has
MapSetIfAbsent(m, k, v) == IF \E i \in 1..Len(m) : m[i][1] = k THEN m ELSE Append(m, <<k, v>>)

RECURSIVE MapSet(_, _, _)
MapSet(m, k, v) == IF m = <<>> THEN << <<k, v>> >> ELSE IF Head(m)[1] = k THEN << <<k, v>> >> \o Tail(m) ELSE <<Head(m)>> \o MapSet(Tail(m), k, v)

\* new Map(entries)
RECURSIVE MapFrom(_, _)
MapFrom(entries, m) == IF entries = <<>> THEN m ELSE MapFrom(Tail(entries), MapSet(m, Head(entries)[1], Head(entries)[2]))

\* [...map.entries()]
MapEntries(m) == m

(***************************************************************************)
(* Inputs of the calls and answers of the external engine.                 *)
(***************************************************************************)
\* "return {a, b}"
ScriptShorthand == <<"r", "e", "t", "u", "r", "n", " ", "{", "a", ",", " ", "b", "}">>

\* "api.u()" newline "return a"
ScriptCall == <<"a", "p", "i", ".", "u", "(", ")", "\n", "r", "e", "t", "u", "r", "n", " ", "a">>

Text(s) == [isString |-> TRUE, text |-> s]

\* a code argument that is no string (null): code.trim() throws
NotAString == [isString |-> FALSE]

CodeArgs == {Text(ScriptShorthand), Text(ScriptCall), NotAString}

\* the id argument left out
NoId == ""

\* the id run generates when none is given
GeneratedId == "t-gen"

TaskIds == {"t1", GeneratedId}

IdArgs == {"t1", NoId}

\* the callers of the host, in the order they make their first call
CallerOrder == <<"c1", "c2", "c3">>

Callers == {CallerOrder[i] : i \in 1..Len(CallerOrder)}

\* the two points a script of the model pauses at: the continuation state and the pending request of each
EnginePauses == {[type |-> "pause", state |-> "s1", fetchRequest |-> "u"], [type |-> "pause", state |-> "s2", fetchRequest |-> "p"]}

\* the engine's paused.variables Map at each of them
EnginePausedVariables(r) == IF r.state = "s1" THEN << <<"user", "v1">> >> ELSE << <<"user", "v1">>, <<"posts", "v2">> >>

EngineValues == {Arr(<<"v1", "v2">>), Scalar("v1")}

\* what executeCode and resumeExecution resolve to
EngineResults == EnginePauses \cup [type : {"complete"}, result : EngineValues] \cup [type : {"error"}, error : {"engine error"}]

NoResult == [type |-> "none"]

\* the engine instance a call holds: how often each operation was invoked on it, its paused property and its variables Map
NoVm == [created |-> FALSE, initialized |-> 0, executed |-> 0, disposed |-> 0, executedBeforeInit |-> FALSE, paused |-> Undef, variables |-> <<>>]

NewVm == [NoVm EXCEPT !.created = TRUE]

VmInitialize(vm) == [vm EXCEPT !.initialized = @ + 1]

VmExecute(vm) == [vm EXCEPT !.executed = @ + 1, !.executedBeforeInit = @ \/ vm.initialized = 0]

\* a finally block without the dispose
VmDisposeSkipped(vm) == vm

\* dispose releases the engine's resources: its paused property and its variables are gone with it
VmDispose(vm) == [vm EXCEPT !.disposed = @ + 1, !.paused = Undef, !.variables = <<>>]

\* vm.paused = { ...stored.paused, variables: new Map(stored.paused.variables) }; for (const [k, v] of vm.paused.variables) vm.variables.set(k, v)
RECURSIVE SeedVariables(_, _)
SeedVariables(vars, entries) == IF entries = <<>> THEN vars ELSE SeedVariables(MapSet(vars, Head(entries)[1], Head(entries)[2]), Tail(entries))

VmSeed(vm, stored) == LET m == MapFrom(stored.paused.variables, <<>>) IN [vm EXCEPT !.paused = [variables |-> m], !.variables = SeedVariables(vm.variables, m)]

\* a snapshot whose variables are read from vm.variables and not from vm.paused
SnapshotOfVmVariables(code, keys, r, vm) == [code |-> code, keys |-> keys, state |-> r.state, paused |-> [variables |-> MapEntries(vm.variables)]]

\* the snapshot run and resume hand to storage.set
Snapshot(code, keys, r, vm) == [code |-> code, keys |-> keys, state |-> r.state, paused |-> [variables |-> MapEntries(vm.paused.variables)]]

\* a resume that works the keys out again from the stored code
ResumeSnapshotRenormalized(stored, r, vm) == Snapshot(normalizeWith(stored.code, <<>>).code, normalizeWith(stored.code, <<>>).keys, r, vm)

\* the snapshot of lines 475-479: code and keys are those of the stored snapshot
ResumeSnapshot(stored, r, vm) == Snapshot(stored.code, stored.keys, r, vm)

\* what a call gives its caller
NoOut == [kind |-> "none"]

Paused(id, fetch) == [kind |-> "return", id |-> id, status |-> "paused", fetch |-> fetch]

Done(id, result) == [kind |-> "return", id |-> id, status |-> "done", result |-> result]

Error(id, message) == [kind |-> "return", id |-> id, status |-> "error", error |-> message]

Raise(message) == [kind |-> "raise", status |-> "raised", message |-> message]

(***************************************************************************)
(* use: registering a Spec.                                                *)
(***************************************************************************)
\* endpoint.replace(/\/$/, '')
StripTrailingSlash(t) == IF t # <<>> /\ t[Len(t)] = "/" THEN SubStr(t, 1, Len(t) - 1) ELSE t

\* path.replace(/^\//, '')
StripLeadingSlash(t) == IF t # <<>> /\ Head(t) = "/" THEN Tail(t) ELSE t

\* a method given as a string m is {call: m, path: m}
Method(call, path) == [call |-> call, path |-> path]

RECURSIVE MapMethods(_)
MapMethods(methods) == IF methods = <<>> THEN <<>> ELSE <<[callPath |-> Head(methods).call, urlPath |-> StripLeadingSlash(Head(methods).path)]>> \o MapMethods(Tail(methods))

\* Array.prototype.sort is stable: insert x after the entries whose urlPath is at least as long
RECURSIVE InsertByLength(_, _)
InsertByLength(sorted, x) == IF sorted = <<>> THEN <<x>> ELSE IF Len(Head(sorted).urlPath) >= Len(x.urlPath) THEN <<Head(sorted)>> \o InsertByLength(Tail(sorted), x) ELSE <<x>> \o sorted

RECURSIVE SortByLength(_, _)
SortByLength(patterns, sorted) == IF patterns = <<>> THEN sorted ELSE SortByLength(Tail(patterns), InsertByLength(sorted, Head(patterns)))

BuildSpec(name, methods, endpoint) == [name |-> name, base |-> StripTrailingSlash(endpoint), patterns |-> SortByLength(MapMethods(methods), <<>>)]

\* use({name: 'api', methods: ['u']}, 'h/')
UseArgs == {[name |-> <<"a", "p", "i">>, methods |-> <<Method(<<"u">>, <<"u">>)>>, endpoint |-> <<"h", "/">>]}

(***************************************************************************)
(* State.                                                                  *)
(***************************************************************************)
VARIABLES specs, nodeRegistry, storage, call, host, lastCall, live, lastSetBy, rc, tx

vars == <<specs, nodeRegistry, storage, call, host, lastCall, live, lastSetBy, rc, tx>>

\* the frame of a caller that has made no call yet
IdleFrame == [pc |-> "idle", op |-> "none", id |-> NoId, code |-> <<>>, keys |-> NullKeys, got |-> FALSE, stored |-> Undef, vm |-> NoVm, r |-> NoResult, exc |-> "", out |-> NoOut, nSet |-> 0, nDel |-> 0, wrote |-> Undef]

\* nodeRegistry = { bySdkName: new Map(), byRawName: new Map() }
EmptyRegistry == [bySdkName |-> <<>>, byRawName |-> <<>>]

\* the text functions on their own: not started
TxIdle == [phase |-> "off"]

\* reconstruct on its own: not started
RcIdle == [phase |-> "off", keys |-> NullKeys, result |-> Scalar(Undefined), out |-> Scalar(Undefined), back |-> <<>>]

InitWith(h) == /\ host = h
               /\ specs = <<>>
               /\ nodeRegistry = EmptyRegistry
               /\ storage = [k \in {} |-> Undef]
               /\ call = [p \in Callers |-> IdleFrame]
               /\ lastCall = [id \in TaskIds |-> [op |-> "none", status |-> "none"]]
               /\ live = [id \in TaskIds |-> FALSE]
               /\ lastSetBy = [id \in TaskIds |-> "none"]

\* a host that awaits each call before it makes the next
Init == InitWith("sequential") /\ rc = RcIdle /\ tx = TxIdle

\* a host whose callers call independently of each other
InitConcurrent == InitWith("concurrent") /\ rc = RcIdle /\ tx = TxIdle

transform(code) == transformWith(code, specs)

normalize(code) == normalizeWith(code, specs)

\* caller p may start a call: the one caller of the sequential host once its last call has returned, each caller of the concurrent host once, in their order
CanCall(p) == IF host = "sequential" THEN p = CallerOrder[1] /\ call[p].pc \in {"idle", "returned"} ELSE \E i \in 1..Len(CallerOrder) : p = CallerOrder[i] /\ call[p].pc = "idle" /\ \A j \in 1..(i - 1) : call[CallerOrder[j]].pc # "idle"

\* the concurrent host registers its Specs at setup time, before its first call
CanUse == host = "sequential" \/ \A p \in Callers : call[p].pc = "idle"

\* the call of caller p ends with outcome out: the finally block disposes the engine
Finish(p, f, out) == /\ call' = [call EXCEPT ![p] = [f EXCEPT !.pc = "returned", !.out = out, !.vm = IF f.vm.created THEN VmDispose(f.vm) ELSE f.vm]]
                     /\ lastCall' = [lastCall EXCEPT ![f.id] = [op |-> f.op, status |-> out.status]]
                     /\ live' = [live EXCEPT ![f.id] = IF out.status = "paused" THEN TRUE ELSE IF f.op = "resume" /\ out.status \in {"done", "error"} THEN FALSE ELSE @]
                     /\ UNCHANGED <<specs, nodeRegistry, host, rc, tx>>

\* the call of caller p goes on to its next await
Continue(p, f) == /\ call' = [call EXCEPT ![p] = f]
                  /\ UNCHANGED <<specs, nodeRegistry, host, rc, tx, lastCall, live>>

Use(a) == /\ CanUse
          /\ Len(specs) < MaxSpecs
          /\ specs' = Append(specs, BuildSpec(a.name, a.methods, a.endpoint))
          /\ UNCHANGED <<nodeRegistry, storage, call, host, lastCall, live, lastSetBy, rc, tx>>

(***************************************************************************)
(* run (lines 427-452).                                                    *)
(***************************************************************************)
\* lines 428-434: the id, normalize, the engine class and instance, up to the await of vm.initialize()
RunCall(p, code, id, acquired) == /\ CanCall(p)
                                  /\ LET taskId == IF id = NoId THEN GeneratedId ELSE id f == [IdleFrame EXCEPT !.op = "run", !.id = taskId] IN IF ~code.isString THEN Finish(p, f, Raise("TypeError")) ELSE IF ~acquired THEN Finish(p, f, Raise("engine unavailable")) ELSE LET n == normalize(code.text) IN Continue(p, [f EXCEPT !.pc = "init", !.code = n.code, !.keys = n.keys, !.vm = VmInitialize(NewVm)])
                                  /\ UNCHANGED <<storage, lastSetBy>>

\* vm.initialize() settles: line 435 awaits vm.executeCode, or the catch of line 447
RunInitialized(p, ok) == /\ call[p].op = "run" /\ call[p].pc = "init"
                         /\ LET f == call[p] IN IF ok THEN Continue(p, [f EXCEPT !.pc = "exec", !.vm = VmExecute(f.vm)]) ELSE Finish(p, [f EXCEPT !.exc = "initialize failed"], Error(f.id, "initialize failed"))
                         /\ UNCHANGED <<storage, lastSetBy>>

\* vm.executeCode settles with r (lines 437-446) or throws (line 447)
RunExecuted(p, ok, r) == /\ call[p].op = "run" /\ call[p].pc = "exec"
                         /\ LET f == call[p] IN IF ~ok THEN Finish(p, [f EXCEPT !.exc = "execute failed"], Error(f.id, "execute failed")) ELSE IF r.type = "pause" THEN LET vm == [f.vm EXCEPT !.paused = [variables |-> EnginePausedVariables(r)]] IN Continue(p, [f EXCEPT !.pc = "set", !.r = r, !.vm = vm, !.nSet = @ + 1, !.wrote = Snapshot(f.code, f.keys, r, vm)]) ELSE IF r.type = "complete" THEN Finish(p, [f EXCEPT !.r = r], Done(f.id, reconstruct(r.result, f.keys))) ELSE Finish(p, [f EXCEPT !.r = r], Error(f.id, r.error))
                         /\ UNCHANGED <<storage, lastSetBy>>

\* run.storage.set of line 438 settles: line 443, or the catch of line 447
RunStored(p, ok) == /\ call[p].op = "run" /\ call[p].pc = "set"
                    /\ LET f == call[p] IN IF ok THEN /\ storage' = StorageSet(storage, f.id, f.wrote)
                                                      /\ lastSetBy' = [lastSetBy EXCEPT ![f.id] = p]
                                                      /\ Finish(p, f, Paused(f.id, f.r.fetchRequest))
                                           ELSE /\ UNCHANGED <<storage, lastSetBy>>
                                                /\ Finish(p, [f EXCEPT !.exc = "set failed"], Error(f.id, "set failed"))

(***************************************************************************)
(* resume (lines 460-491).                                                 *)
(***************************************************************************)
\* a resume without the check of line 462
NotFoundUnchecked(stored) == FALSE

NotFound(stored) == stored = Undef

\* line 461: up to the await of run.storage.get
ResumeCall(p, id) == /\ CanCall(p)
                     /\ Continue(p, [IdleFrame EXCEPT !.op = "resume", !.id = id, !.pc = "get"])
                     /\ UNCHANGED <<storage, lastSetBy>>

\* run.storage.get settles: lines 462-468, up to the await of vm.initialize(); acquiring the engine (lines 464-465) is outside the try
ResumeLoaded(p, ok, acquired) == /\ call[p].op = "resume" /\ call[p].pc = "get"
                                 /\ LET f == call[p] stored == StorageGet(storage, f.id) IN IF ~ok THEN Finish(p, f, Raise("get failed")) ELSE IF NotFound(stored) THEN Finish(p, [f EXCEPT !.got = TRUE, !.stored = stored], Raise("Not found")) ELSE IF ~acquired THEN Finish(p, [f EXCEPT !.got = TRUE, !.stored = stored], Raise("engine unavailable")) ELSE Continue(p, [f EXCEPT !.pc = "init", !.got = TRUE, !.stored = stored, !.vm = VmInitialize(NewVm)])
                       /\ UNCHANGED <<storage, lastSetBy>>

\* vm.initialize() settles: lines 469-472 up to the await of vm.resumeExecution, or the catch of line 485 up to its await of del
ResumeInitialized(p, ok) == /\ call[p].op = "resume" /\ call[p].pc = "init"
                            /\ LET f == call[p] IN IF ok THEN Continue(p, [f EXCEPT !.pc = "exec", !.vm = VmExecute(VmSeed(f.vm, f.stored))]) ELSE Continue(p, [f EXCEPT !.pc = "catchDel", !.exc = "initialize failed", !.nDel = @ + 1])
                            /\ UNCHANGED <<storage, lastSetBy>>

\* vm.resumeExecution settles with r: the set of line 475, the del of line 482, or the catch's del of line 486
ResumeExecuted(p, ok, r) == /\ call[p].op = "resume" /\ call[p].pc = "exec"
                            /\ LET f == call[p] IN IF ~ok THEN Continue(p, [f EXCEPT !.pc = "catchDel", !.exc = "resume failed", !.nDel = @ + 1]) ELSE IF r.type = "pause" THEN LET vm == [f.vm EXCEPT !.paused = [variables |-> EnginePausedVariables(r)]] IN Continue(p, [f EXCEPT !.pc = "set", !.r = r, !.vm = vm, !.nSet = @ + 1, !.wrote = ResumeSnapshot(f.stored, r, vm)]) ELSE Continue(p, [f EXCEPT !.pc = "del", !.r = r, !.nDel = @ + 1])
                            /\ UNCHANGED <<storage, lastSetBy>>

\* a resume whose set writes only over a snapshot that is still stored
ResumeStoredIfPresent(p, ok) == /\ call[p].op = "resume" /\ call[p].pc = "set"
                                /\ LET f == call[p] IN IF ok THEN /\ storage' = IF f.id \in DOMAIN storage THEN StorageSet(storage, f.id, f.wrote) ELSE storage
                                                                  /\ lastSetBy' = [lastSetBy EXCEPT ![f.id] = p]
                                                                  /\ Finish(p, f, Paused(f.id, f.r.fetchRequest))
                                                       ELSE /\ UNCHANGED <<storage, lastSetBy>>
                                                            /\ Continue(p, [f EXCEPT !.pc = "catchDel", !.exc = "set failed", !.nDel = @ + 1])

\* run.storage.set of line 475 settles: line 480, or the catch's del of line 486
ResumeStored(p, ok) == /\ call[p].op = "resume" /\ call[p].pc = "set"
                       /\ LET f == call[p] IN IF ok THEN /\ storage' = StorageSet(storage, f.id, f.wrote)
                                                         /\ lastSetBy' = [lastSetBy EXCEPT ![f.id] = p]
                                                         /\ Finish(p, f, Paused(f.id, f.r.fetchRequest))
                                              ELSE /\ UNCHANGED <<storage, lastSetBy>>
                                                   /\ Continue(p, [f EXCEPT !.pc = "catchDel", !.exc = "set failed", !.nDel = @ + 1])

\* a resume that deletes the snapshot of a completed task only
ResumeDeletedOnComplete(p, ok) == /\ call[p].op = "resume" /\ call[p].pc = "del"
                                  /\ LET f == call[p] IN IF ok THEN /\ storage' = IF f.r.type = "complete" THEN StorageDel(storage, f.id) ELSE storage
                                                                    /\ lastSetBy' = IF f.r.type = "complete" THEN [lastSetBy EXCEPT ![f.id] = "none"] ELSE lastSetBy
                                                                    /\ Finish(p, f, IF f.r.type = "complete" THEN Done(f.id, reconstruct(f.r.result, f.stored.keys)) ELSE Error(f.id, f.r.error))
                                                         ELSE /\ UNCHANGED <<storage, lastSetBy>>
                                                              /\ Continue(p, [f EXCEPT !.pc = "catchDel", !.exc = "del failed", !.nDel = @ + 1])

\* run.storage.del of line 482 settles: lines 483-484, or the catch's del of line 486
ResumeDeleted(p, ok) == /\ call[p].op = "resume" /\ call[p].pc = "del"
                        /\ LET f == call[p] IN IF ok THEN /\ storage' = StorageDel(storage, f.id)
                                                          /\ lastSetBy' = [lastSetBy EXCEPT ![f.id] = "none"]
                                                          /\ Finish(p, f, IF f.r.type = "complete" THEN Done(f.id, reconstruct(f.r.result, f.stored.keys)) ELSE Error(f.id, f.r.error))
                                               ELSE /\ UNCHANGED <<storage, lastSetBy>>
                                                    /\ Continue(p, [f EXCEPT !.pc = "catchDel", !.exc = "del failed", !.nDel = @ + 1])

\* a catch that throws the failure on after its del
ResumeCaughtRethrows(p, ok) == /\ call[p].op = "resume" /\ call[p].pc = "catchDel"
                               /\ LET f == call[p] IN IF ok THEN /\ storage' = StorageDel(storage, f.id)
                                                                 /\ lastSetBy' = [lastSetBy EXCEPT ![f.id] = "none"]
                                                                 /\ Finish(p, f, Raise(f.exc))
                                                      ELSE /\ UNCHANGED <<storage, lastSetBy>>
                                                           /\ Finish(p, f, Raise("del failed"))

\* the catch's run.storage.del of line 486 settles: line 487, or its failure leaves resume through the finally
ResumeCaught(p, ok) == /\ call[p].op = "resume" /\ call[p].pc = "catchDel"
                       /\ LET f == call[p] IN IF ok THEN /\ storage' = StorageDel(storage, f.id)
                                                         /\ lastSetBy' = [lastSetBy EXCEPT ![f.id] = "none"]
                                                         /\ Finish(p, f, Error(f.id, f.exc))
                                              ELSE /\ UNCHANGED <<storage, lastSetBy>>
                                                   /\ Finish(p, f, Raise("del failed"))

(***************************************************************************)
(* The host: a caller makes any call once its last one has returned;       *)
(* awaited operations of the engine and of the storage settle either way.  *)
(***************************************************************************)
Step(p) == \/ \E ok \in BOOLEAN : RunInitialized(p, ok)
           \/ \E ok \in BOOLEAN, r \in EngineResults : RunExecuted(p, ok, r)
           \/ \E ok \in BOOLEAN : RunStored(p, ok)
           \/ \E ok \in BOOLEAN, acquired \in BOOLEAN : ResumeLoaded(p, ok, acquired)
           \/ \E ok \in BOOLEAN : ResumeInitialized(p, ok)
           \/ \E ok \in BOOLEAN, r \in EngineResults : ResumeExecuted(p, ok, r)
           \/ \E ok \in BOOLEAN : ResumeStored(p, ok)
           \/ \E ok \in BOOLEAN : ResumeDeleted(p, ok)
           \/ \E ok \in BOOLEAN : ResumeCaught(p, ok)

Next == \/ \E a \in UseArgs : Use(a)
        \/ \E p \in Callers, code \in CodeArgs, id \in IdArgs, acquired \in BOOLEAN : RunCall(p, code, id, acquired)
        \/ \E p \in Callers, id \in TaskIds : ResumeCall(p, id)
        \/ \E p \in Callers : Step(p)

Spec == Init /\ [][Next]_vars

SpecConcurrent == InitConcurrent /\ [][Next]_vars

(***************************************************************************)
(* The lifecycle claims.                                                   *)
(***************************************************************************)
Present(id) == id \in DOMAIN storage

Returned(p) == call[p].pc = "returned"

\* the snapshot a call that met a pause has to write
DueSnapshot(f) == [code |-> IF f.op = "run" THEN f.code ELSE f.stored.code, keys |-> IF f.op = "run" THEN f.keys ELSE f.stored.keys, state |-> f.r.state, paused |-> [variables |-> EnginePausedVariables(f.r)]]

\* C1: once a resume has returned status done or error, storage holds nothing for its id
C1_LifecycleClosure == \A p \in Callers : (Returned(p) /\ call[p].op = "resume" /\ call[p].out.status \in {"done", "error"}) => ~Present(call[p].id)

\* C1 witness: a resume that found a snapshot has returned done
C1_Witness == \E p \in Callers : Returned(p) /\ call[p].op = "resume" /\ call[p].stored # Undef /\ call[p].out.status = "done"

\* C2 as stated: whenever the most recent run or resume call for an id returned done or error, a run that reuses the id included, storage holds nothing for that id
C2_SnapshotOnlyWhilePaused == \A id \in TaskIds : lastCall[id].status \in {"done", "error"} => ~Present(id)

\* C2 amended: storage holds a snapshot for an id only if a call for it returned paused and no resume for it has returned done or error since, and it holds none when the most recent call for the id is a resume that returned done or error
C2_SnapshotOnlyWhilePending == \A id \in TaskIds : /\ Present(id) => live[id]
                                                   /\ (lastCall[id].op = "resume" /\ lastCall[id].status \in {"done", "error"}) => ~Present(id)

\* C2 witness: a run that reuses the id of a paused task has returned done or error and the snapshot of the paused task is still stored
C2_Witness == \E id \in TaskIds : Present(id) /\ live[id] /\ lastCall[id].op = "run" /\ lastCall[id].status \in {"done", "error"}

\* C3: a resume whose get gave nothing raises not-found, invokes neither set nor del and creates no engine
C3_NotFoundRaises == \A p \in Callers : (call[p].op = "resume" /\ call[p].got /\ call[p].stored = Undef) => (Returned(p) /\ call[p].out = Raise("Not found") /\ call[p].nSet = 0 /\ call[p].nDel = 0 /\ call[p].vm = NoVm)

\* C3 witness: a resume of an id without a snapshot has raised not-found
C3_Witness == \E p \in Callers : Returned(p) /\ call[p].op = "resume" /\ call[p].got /\ call[p].stored = Undef /\ call[p].out.kind = "raise"

\* C4: the snapshot a run writes has the code and the keys its normalize gave, a snapshot a resume writes has the code and the keys of the snapshot stored before it, and a resume that returns done returns reconstruct(engine result, keys of the stored snapshot)
C4_Settles(p) == call[p].op = "resume" /\ call[p].pc # "returned" /\ call'[p].op = "resume" /\ call'[p].pc = "returned" /\ Present(call[p].id)

C4_CodeAndKeysKept(p) == call'[p].out.status = "paused" => (storage'[call[p].id].code = storage[call[p].id].code /\ storage'[call[p].id].keys = storage[call[p].id].keys)

C4_ResultKeyed(p) == call'[p].out.status = "done" => call'[p].out.result = reconstruct(call[p].r.result, storage[call[p].id].keys)

C4_RunStores(p) == (call[p].op = "run" /\ call[p].pc = "set" /\ call'[p].pc = "returned" /\ call'[p].out.status = "paused") => (storage'[call[p].id].code = call[p].code /\ storage'[call[p].id].keys = call[p].keys)

C4_KeysThreaded == [][\A p \in Callers : C4_RunStores(p) /\ (C4_Settles(p) => (C4_CodeAndKeysKept(p) /\ C4_ResultKeyed(p)))]_vars

\* C4 witness: a resume has returned done with the keyed result of a shorthand return
C4_Witness == \E p \in Callers : Returned(p) /\ call[p].op = "resume" /\ call[p].out.status = "done" /\ call[p].out.result.kind = "object" /\ call[p].stored.state = "s2"

\* C5 as stated: run never raises to its caller
C5_RunNeverRaises == \A p \in Callers : (Returned(p) /\ call[p].op = "run") => call[p].out.kind = "return"

\* C6 as stated: a failure of storage.set inside resume is raised to the caller
C6_ResumeSetFailureRaised == \A p \in Callers : (Returned(p) /\ call[p].op = "resume" /\ call[p].exc = "set failed") => call[p].out.kind = "raise"

\* C6 amended: after a failure of storage.set resume invokes storage.del; it returns {status: error} with the failure's message once that del succeeded, leaving nothing stored, and raises only when the del fails too; run returns {status: error} and invokes no del
C6_RunSurfaced(f) == f.out = Error(f.id, "set failed") /\ f.nDel = 0

C6_ResumeSurfaced(f) == f.nDel = 1 /\ f.out \in {Error(f.id, "set failed"), Raise("del failed")} /\ (f.out.kind = "return" => ~Present(f.id))

C6_SetFailureSurfaced == \A p \in Callers : (Returned(p) /\ call[p].exc = "set failed") => IF call[p].op = "run" THEN C6_RunSurfaced(call[p]) ELSE C6_ResumeSurfaced(call[p])

\* C6 witness: a resume whose storage.set failed has returned an error record
C6_Witness == \E p \in Callers : Returned(p) /\ call[p].op = "resume" /\ call[p].exc = "set failed" /\ call[p].out.kind = "return" /\ call[p].out.status = "error"

\* C7: initialize is invoked on an engine before any execute or resume, and dispose exactly once by the time the call that made the engine ends, on every exit path
C7_EngineScoped == \A p \in Callers : LET vm == call[p].vm IN /\ ~vm.executedBeforeInit
                                                              /\ vm.executed > 0 => vm.initialized = 1
                                                              /\ vm.created => vm.initialized = 1
                                                              /\ vm.disposed = IF vm.created /\ Returned(p) THEN 1 ELSE 0

\* C7 witness: a resume left through a failing del of its catch block with its engine disposed
C7_Witness == \E p \in Callers : Returned(p) /\ call[p].out = Raise("del failed") /\ call[p].vm.created /\ call[p].vm.executed = 1 /\ call[p].vm.disposed = 1

\* C8: storage.set is invoked exactly when the engine result is a pause, with the engine's new state and paused variables; when it succeeds the snapshot is stored and the call returns paused with the pending request; a run whose engine result is complete or error invokes neither set nor del
C8_SetIffPause == \A p \in Callers : LET f == call[p] IN /\ f.nSet = IF f.r.type = "pause" THEN 1 ELSE 0
                                                         /\ f.r.type = "pause" => f.wrote = DueSnapshot(f)
                                                         /\ (Returned(p) /\ f.r.type = "pause" /\ f.exc = "") => (f.out = Paused(f.id, f.r.fetchRequest) /\ StorageGet(storage, f.id) = DueSnapshot(f))
                                                         /\ (Returned(p) /\ f.out.status = "paused") => f.r.type = "pause"
                                                         /\ (f.op = "run" /\ f.r.type \in {"complete", "error"}) => (f.nSet = 0 /\ f.nDel = 0)

\* C8 witness: a resume that met a further pause has replaced the stored snapshot by one with the new state
C8_Witness == \E p \in Callers : Returned(p) /\ call[p].op = "resume" /\ call[p].out.status = "paused" /\ call[p].stored.state # call[p].r.state /\ storage[call[p].id].state = call[p].r.state

\* C9: the snapshot stored for an id is the one written by the call whose storage.set settled last
C9_LastSetWins == \A id \in TaskIds : Present(id) => (lastSetBy[id] \in Callers /\ storage[id] = call[lastSetBy[id]].wrote)

\* C9 witness: two resumes of one id loaded the same snapshot before either wrote, both met a pause, and the snapshot of the first to write is gone
C9_Witness == \E p, q \in Callers : /\ p # q /\ Returned(p) /\ Returned(q)
                                    /\ call[p].op = "resume" /\ call[q].op = "resume" /\ call[p].id = call[q].id
                                    /\ call[p].stored # Undef /\ call[p].stored = call[q].stored
                                    /\ call[p].out.status = "paused" /\ call[q].out.status = "paused"
                                    /\ call[p].wrote # call[q].wrote
                                    /\ lastSetBy[call[p].id] = q /\ storage[call[p].id] = call[q].wrote /\ storage[call[p].id] # call[p].wrote

(***************************************************************************)
(* reconstruct on its own: any key list and any engine result within the   *)
(* bounds, reconstructed and then read back in the order of the keys.      *)
(***************************************************************************)
KeyNames == {<<"a">>, <<"b">>}

SeqsUpTo(S, n) == UNION {[1..k -> S] : k \in 0..n}

RcKeys == {NullKeys} \cup {KeyList(l) : l \in SeqsUpTo(KeyNames, MaxLen)}

RcResults == {Scalar("v1")} \cup {Arr(v) : v \in SeqsUpTo(Values, MaxLen)}

InitReconstruct == /\ InitWith("none")
                   /\ tx = TxIdle
                   /\ \E k \in RcKeys, r \in RcResults : rc = [RcIdle EXCEPT !.phase = "input", !.keys = k, !.result = r]

RcReconstruct == /\ rc.phase = "input"
                 /\ rc' = [rc EXCEPT !.phase = "built", !.out = reconstruct(rc.result, rc.keys)]
                 /\ UNCHANGED <<specs, nodeRegistry, storage, call, host, lastCall, live, lastSetBy, tx>>

RcReadBack == /\ rc.phase = "built"
              /\ rc.out.kind = "object"
              /\ rc' = [rc EXCEPT !.phase = "read", !.back = Flatten(rc.out, rc.keys.list)]
              /\ UNCHANGED <<specs, nodeRegistry, storage, call, host, lastCall, live, lastSetBy, tx>>

NextReconstruct == RcReconstruct \/ RcReadBack

SpecReconstruct == InitReconstruct /\ [][NextReconstruct]_vars

Distinct(l) == \A i, j \in 1..Len(l) : l[i] = l[j] => i = j

\* C10 as stated: for any key list K and value sequence V of equal length, the values of reconstruct(V, K) read back in the order of K are V
C10_RoundTrip == (rc.phase = "read" /\ rc.result.kind = "array" /\ Len(rc.keys.list) = Len(rc.result.items)) => rc.back = rc.result.items

\* C10 amended: for any list K of pairwise distinct keys and any value sequence V of equal length, the values of reconstruct(V, K) read back in the order of K are V
C10_RoundTripDistinctKeys == (rc.phase = "read" /\ rc.result.kind = "array" /\ Len(rc.keys.list) = Len(rc.result.items) /\ Distinct(rc.keys.list)) => rc.back = rc.result.items

\* C10 witness: two distinct keys and two different values were reconstructed and read back
C10_Witness == rc.phase = "read" /\ rc.result.kind = "array" /\ rc.keys.list = << <<"a">>, <<"b">> >> /\ rc.result.items = <<"v1", "v2">> /\ rc.back = <<"v1", "v2">>

(***************************************************************************)
(* The Call Rewriter on its own: transform applied to a script, and to its *)
(* own output, under a registry built by use.                              *)
(***************************************************************************)
\* longest script, in segments
MaxSegments == 4

\* the pieces scripts are put together from: api.u(  )  " a "  " "  x.  x.fetch(  b
Segments == {<<"a", "p", "i", ".", "u", "(">>, <<")">>, <<" ", "a", " ">>, <<" ">>, <<"x", ".">>, <<"x", ".", "f", "e", "t", "c", "h", "(">>, <<"b">>}

RECURSIVE Concat(_)
Concat(parts) == IF parts = <<>> THEN <<>> ELSE Head(parts) \o Concat(Tail(parts))

Scripts == {Concat(parts) : parts \in SeqsUpTo(Segments, MaxSegments)}

\* the use calls of a setup: use({name: 'api', methods: ['u']}, 'h/'); the same with 'h//'; the same Spec registered for 'h/' and then for 'g'; use({name: 'api', methods: [{call: 'u', path: '/p'}]}, 'h'); use({name: 'x', methods: ['fetch']}, 'h')
Setups == {<<[name |-> <<"a", "p", "i">>, methods |-> <<Method(<<"u">>, <<"u">>)>>, endpoint |-> <<"h", "/">>]>>, <<[name |-> <<"a", "p", "i">>, methods |-> <<Method(<<"u">>, <<"u">>)>>, endpoint |-> <<"h", "/", "/">>]>>, <<[name |-> <<"a", "p", "i">>, methods |-> <<Method(<<"u">>, <<"u">>)>>, endpoint |-> <<"h", "/">>], [name |-> <<"a", "p", "i">>, methods |-> <<Method(<<"u">>, <<"u">>)>>, endpoint |-> <<"g">>]>>, <<[name |-> <<"a", "p", "i">>, methods |-> <<Method(<<"u">>, <<"/", "p">>)>>, endpoint |-> <<"h">>]>>, <<[name |-> <<"x">>, methods |-> <<Method(<<"f", "e", "t", "c", "h">>, <<"f", "e", "t", "c", "h">>)>>, endpoint |-> <<"h">>]>>}

\* the registry after the use calls of a setup, each pushing its Spec
Registry(uses) == [i \in 1..Len(uses) |-> BuildSpec(uses[i].name, uses[i].methods, uses[i].endpoint)]

InitText(h) == /\ host = h
               /\ nodeRegistry = EmptyRegistry
               /\ storage = [k \in {} |-> Undef]
               /\ call = [p \in Callers |-> IdleFrame]
               /\ lastCall = [id \in TaskIds |-> [op |-> "none", status |-> "none"]]
               /\ live = [id \in TaskIds |-> FALSE]
               /\ lastSetBy = [id \in TaskIds |-> "none"]
               /\ rc = RcIdle

InitRewrite == /\ InitText("rewrite")
               /\ \E uses \in Setups, code \in Scripts : specs = Registry(uses) /\ tx = [phase |-> "input", uses |-> uses, code |-> code, once |-> <<>>, twice |-> <<>>]

\* transform(code)
TxTransform == /\ host = "rewrite" /\ tx.phase = "input"
               /\ tx' = [tx EXCEPT !.phase = "once", !.once = transform(tx.code)]
               /\ UNCHANGED <<specs, nodeRegistry, storage, call, host, lastCall, live, lastSetBy, rc>>

\* transform applied to the output of transform
TxTransformAgain == /\ host = "rewrite" /\ tx.phase = "once"
                    /\ tx' = [tx EXCEPT !.phase = "twice", !.twice = transform(tx.once)]
                    /\ UNCHANGED <<specs, nodeRegistry, storage, call, host, lastCall, live, lastSetBy, rc>>

NextRewrite == TxTransform \/ TxTransformAgain

SpecRewrite == InitRewrite /\ [][NextRewrite]_vars

(***************************************************************************)
(* The Call Rewriter claims.                                               *)
(***************************************************************************)
\* the pattern texts name.callPath of a registry
PatternTexts(reg) == UNION {{PatternLiteral(reg[i].name, reg[i].patterns[j].callPath) : j \in 1..Len(reg[i].patterns)} : i \in 1..Len(reg)}

\* the request expressions a registry generates, with an argument
Generated(reg) == UNION {{Replacement(reg[i].base, reg[i].patterns[j].urlPath, <<"a">>) : j \in 1..Len(reg[i].patterns)} : i \in 1..Len(reg)}

\* no opening parenthesis of s is followed by another one before a closing one
NoNestedParens(s) == \A i, j \in 1..Len(s) : (i < j /\ s[i] = "(" /\ s[j] = "(") => \E k \in (i + 1)..(j - 1) : s[k] = ")"

\* text p ends where text t ends, one being a suffix of the other
SuffixOverlap(p, t) == IF Len(p) <= Len(t) THEN SubStr(t, Len(t) - Len(p) + 1, Len(t)) = p ELSE SubStr(p, Len(p) - Len(t) + 1, Len(p)) = t

\* no pattern text holds a parenthesis or can end right before a parenthesis of a generated request expression
GeneratedSafe(reg) == \A p \in PatternTexts(reg) : /\ \A i \in 1..Len(p) : p[i] \notin {"(", ")"}
                                                   /\ \A g \in Generated(reg) : \A k \in 1..Len(g) : g[k] = "(" => ~SuffixOverlap(p, SubStr(g, 1, k - 1))

\* C11 as stated: for any script and any registry, transform(transform(s)) = transform(s)
C11_Idempotent == tx.phase = "twice" => tx.twice = tx.once

\* C11 amended: transform(transform(s)) = transform(s) for a script without nested parentheses and a registry none of whose pattern texts holds a parenthesis or can end right before a parenthesis of a generated request expression
C11_IdempotentUnnested == (tx.phase = "twice" /\ NoNestedParens(tx.code) /\ GeneratedSafe(specs)) => tx.twice = tx.once

\* C11 witness: two calls of a script without nested parentheses were rewritten, and the second pass left the output as it was
C11_Witness == tx.phase = "twice" /\ tx.code = <<"a", "p", "i", ".", "u", "(", ")", "a", "p", "i", ".", "u", "(", ")">> /\ GeneratedSafe(specs) /\ tx.once # tx.code /\ ~Includes(tx.once, <<"a", "p", "i", ".", "u", "(">>) /\ tx.twice = tx.once

\* text around a call that holds no call, and argument texts without a parenthesis
PlainTexts == {<<>>, <<"b">>, <<" ">>}

ArgTexts == {<<>>, <<" ">>, <<" ", " ">>, <<" ", "a", " ">>, <<"b">>, <<"b", " ", "a", " ">>}

\* the endpoint e with one trailing slash removed
OneSlashOff(e) == IF e # <<>> /\ e[Len(e)] = "/" THEN SubSeq(e, 1, Len(e) - 1) ELSE e

\* the request expression for base/urlPath: without a query string, or with ?args= and the URL-encoded JSON array whose source is the argument text
RequestTo(base, urlPath) == <<"f", "e", "t", "c", "h", "(", "\"">> \o base \o <<"/">> \o urlPath \o <<"\"", ")">>

RequestWithArgs(base, urlPath, args) == <<"f", "e", "t", "c", "h", "(", "\"">> \o base \o <<"/">> \o urlPath \o <<"?", "a", "r", "g", "s", "=", "\"", "+">> \o <<"e", "n", "c", "o", "d", "e", "U", "R", "I", "C", "o", "m", "p", "o", "n", "e", "n", "t", "(">> \o <<"J", "S", "O", "N", ".", "s", "t", "r", "i", "n", "g", "i", "f", "y", "(", "[">> \o args \o <<"]", ")", ")", ")">>

\* the i-th Spec is the earliest one with the pattern text p
EarliestWith(i, p) == \A k \in 1..(i - 1) : \A j \in 1..Len(specs[k].patterns) : PatternLiteral(specs[k].name, specs[k].patterns[j].callPath) # p

\* the script is pre, the call p(args), post
IsCall(code, pre, p, args, post) == code = pre \o p \o <<"(">> \o args \o <<")">> \o post

C16_Expected(i, j, args) == IF Inked(args) = {} THEN RequestTo(OneSlashOff(tx.uses[i].endpoint), specs[i].patterns[j].urlPath) ELSE RequestWithArgs(OneSlashOff(tx.uses[i].endpoint), specs[i].patterns[j].urlPath, Trim(args))

MaxPieces == 2

Delims == {"'", "\"", Backtick}

\* what the body of a literal delimited by d is made of: a letter, a newline, an escaped backslash, the escaped delimiter, the other delimiters, and in a template literal an interpolation and an interpolation holding a template literal with a newline
BodyPieces(d) == {<<"a">>, <<"\n">>, <<"\\", "\\">>, <<"\\", d>>} \cup {<<e>> : e \in Delims \ {d}} \cup (IF d = Backtick THEN {<<"$", "{", "a", "}">>, <<"$", "{", Backtick, "\n", Backtick, "}">>} ELSE {})

Literals == UNION {{<<d>> \o Concat(body) \o <<d>> : body \in SeqsUpTo(BodyPieces(d), MaxPieces)} : d \in Delims}

\* a second literal with a newline in it, and what separates it from the first
SecondLiterals == {<<d, "a", "\n", d>> : d \in Delims}

Separators == {<<" ">>, <<"\n">>}

\* a script as its parts: one literal, or a literal, a separator and a second literal
LiteralScripts == {<<l>> : l \in Literals} \cup {<<l, sep, m>> : l \in Literals, sep \in Separators, m \in SecondLiterals}

\* longest key list of a shorthand return
MaxKeys == 2

\* names joined by sep
RECURSIVE JoinWith(_, _)
JoinWith(names, sep) == IF names = <<>> THEN <<>> ELSE IF Len(names) = 1 THEN Head(names) ELSE Head(names) \o sep \o JoinWith(Tail(names), sep)

\* return expressions: the shorthand object of a key list, written tightly ({a,b}) or spaced ({ a, b }), and a name, an object with a colon, a string holding "return " and an array
ShorthandExprs == UNION {{[shape |-> "shorthand", names |-> names, text |-> <<"{">> \o JoinWith(names, <<",">>) \o <<"}">>], [shape |-> "shorthand", names |-> names, text |-> <<"{", " ">> \o JoinWith(names, <<",", " ">>) \o <<" ", "}">>]} : names \in SeqsUpTo(KeyNames, MaxKeys)}

OtherExprs == {[shape |-> "other", names |-> <<>>, text |-> t] : t \in {<<"a">>, <<"{", "a", ":", " ", "b", "}">>, <<"\"", "r", "e", "t", "u", "r", "n", " ", "a", "\"">>, <<"[", "a", ",", " ", "b", "]">>}}

\* what precedes the return statement, and the terminators that follow it
Prefixes == {<<>>, <<"a", ";">>, <<"r", "e", "t", "u", "r", "n", " ", "b", ";">>}

Terminators == {<<>>, <<";">>, <<";", ";">>}

\* a script as its parts: what precedes, the return expression, the terminators
ReturnScripts == {[prefix |-> pre, expr |-> e, term |-> t] : pre \in Prefixes, e \in ShorthandExprs \cup OtherExprs, t \in Terminators}

InitNormalize == /\ InitText("normalize")
                 /\ specs = <<>>
                 /\ \/ \E parts \in LiteralScripts : tx = [phase |-> "input", kind |-> "literals", parts |-> parts, code |-> Concat(parts), emitted |-> <<>>, out |-> [code |-> <<>>, keys |-> NullKeys]]
                    \/ \E r \in ReturnScripts : tx = [phase |-> "input", kind |-> "return", parts |-> r, code |-> r.prefix \o <<"r", "e", "t", "u", "r", "n", " ">> \o r.expr.text \o r.term, emitted |-> <<>>, out |-> [code |-> <<>>, keys |-> NullKeys]]

\* what iteration i of the scan loop over c appends to result
Emitted(c, i) == LET before == ScanRange(c, 1, i - 1, ScanInit).result after == ScanRange(c, 1, i, ScanInit).result IN SubStr(after, Len(before) + 1, Len(after))

\* normalize(code), with what each iteration of its scan loop appended
TxNormalize == /\ host = "normalize" /\ tx.phase = "input"
               /\ tx' = [tx EXCEPT !.phase = "normalized", !.out = normalize(tx.code), !.emitted = [i \in 1..Len(transform(Trim(tx.code))) |-> Emitted(transform(Trim(tx.code)), i)]]
               /\ UNCHANGED <<specs, nodeRegistry, storage, call, host, lastCall, live, lastSetBy, rc>>

NextNormalize == TxNormalize

SpecNormalize == InitNormalize /\ [][NextNormalize]_vars

\* the positions of the script inside its literals
LiteralSpans(parts) == IF Len(parts) = 1 THEN {[lo |-> 1, hi |-> Len(parts[1])]} ELSE {[lo |-> 1, hi |-> Len(parts[1])], [lo |-> Len(parts[1]) + Len(parts[2]) + 1, hi |-> Len(parts[1]) + Len(parts[2]) + Len(parts[3])]}

InLiteral(parts, i) == \E sp \in LiteralSpans(parts) : sp.lo <= i /\ i <= sp.hi

\* a literal whose closing delimiter follows no backslash and, for a template literal, that holds no backtick but escaped ones
PlainlyDelimited(l) == /\ l[Len(l) - 1] # "\\" \/ Len(l) = 2
                       /\ l[1] = Backtick => \A k \in 2..(Len(l) - 1) : l[k] = Backtick => l[k - 1] = "\\"

\* C12 as stated: for any script, every character inside a literal, its newlines included, is emitted as it is, with no terminator put in
C12_StringSafe == (tx.phase = "normalized" /\ tx.kind = "literals") => \A i \in 1..Len(tx.code) : InLiteral(tx.parts, i) => tx.emitted[i] = <<tx.code[i]>>

\* C12 amended: the same for a script none of whose literals ends in an escaped backslash or holds an unescaped backtick inside a template literal
C12_StringSafePlain == (tx.phase = "normalized" /\ tx.kind = "literals" /\ \A k \in 1..Len(tx.parts) : k # 2 => PlainlyDelimited(tx.parts[k])) => \A i \in 1..Len(tx.code) : InLiteral(tx.parts, i) => tx.emitted[i] = <<tx.code[i]>>

\* C12 witness: a double-quoted literal with an escaped quote, then a top-level newline, then a template literal with a newline: the newline between them was dropped for a terminator, the one in the literal kept
C12_Witness == tx.phase = "normalized" /\ tx.kind = "literals" /\ tx.parts = << <<"\"", "\\", "\"", "a", "\"">>, <<"\n">>, <<Backtick, "a", "\n", Backtick>> >> /\ tx.emitted[6] = <<";">> /\ tx.emitted[9] = <<"\n">> /\ tx.out.code = <<"\"", "\\", "\"", "a", "\"", ";", Backtick, "a", "\n", Backtick>>

\* t without the terminators at its end, and t without the white space around it
RECURSIVE DropTerminators(_)
DropTerminators(t) == IF t # <<>> /\ t[Len(t)] = ";" THEN DropTerminators(SubSeq(t, 1, Len(t) - 1)) ELSE t

RECURSIVE DropSpaces(_)
DropSpaces(t) == IF t # <<>> /\ t[1] = " " THEN DropSpaces(Tail(t)) ELSE IF t # <<>> /\ t[Len(t)] = " " THEN DropSpaces(SubSeq(t, 1, Len(t) - 1)) ELSE t

\* the place of the last "return " of t, wherever it stands
ReturnAt(t, i) == i + 6 <= Len(t) /\ SubSeq(t, i, i + 6) = <<"r", "e", "t", "u", "r", "n", " ">>

LastReturn(t) == CHOOSE i \in 1..Len(t) : ReturnAt(t, i) /\ \A j \in (i + 1)..Len(t) : ~ReturnAt(t, j)

\* the text before it, and the return expression after it, up to the trailing terminators
BeforeLastReturn(t) == SubStr(t, 1, LastReturn(t) - 1)

ExprAfterLastReturn(t) == DropSpaces(DropTerminators(SubStr(t, LastReturn(t) + 7, Len(t))))

ArrayOf(names) == <<"[">> \o JoinWith(names, <<",", " ">>) \o <<"]">>

\* C17 as stated: the return expression is what follows the last top-level "return " up to the trailing terminators; wrapped in braces with no colon inside, keys is the list of the names between the commas and the expression becomes the array of them; otherwise keys is null and the expression is left as it is
C17_ReturnShape == (tx.phase = "normalized" /\ tx.kind = "return") => IF tx.parts.expr.shape = "shorthand" THEN tx.out.keys = KeyList(tx.parts.expr.names) /\ tx.out.code = tx.parts.prefix \o ArrayOf(tx.parts.expr.names) ELSE tx.out.keys = NullKeys /\ tx.out.code = tx.parts.prefix \o tx.parts.expr.text

\* C17 amended: the return expression is what follows the last "return " anywhere in the text, one inside a literal included, up to the trailing terminators; wrapped in braces around at least one name and no colon, keys is the list of the names between the commas and the expression becomes the array of them; otherwise, empty braces included, keys is null and the expression is left as it is
C17_ReturnShapeAnywhere == (tx.phase = "normalized" /\ tx.kind = "return") => IF tx.parts.expr.shape = "shorthand" /\ tx.parts.expr.names # <<>> THEN tx.out.keys = KeyList(tx.parts.expr.names) /\ tx.out.code = tx.parts.prefix \o ArrayOf(tx.parts.expr.names) ELSE tx.out.keys = NullKeys /\ tx.out.code = BeforeLastReturn(tx.code) \o ExprAfterLastReturn(tx.code)

\* C17 witness: return b;return { a, b };; gave the keys a, b and the code  return b;[a, b]
C17_Witness == tx.phase = "normalized" /\ tx.kind = "return" /\ tx.code = <<"r", "e", "t", "u", "r", "n", " ", "b", ";", "r", "e", "t", "u", "r", "n", " ", "{", " ", "a", ",", " ", "b", " ", "}", ";", ";">> /\ tx.out.keys = KeyList(<< <<"a">>, <<"b">> >>) /\ tx.out.code = <<"r", "e", "t", "u", "r", "n", " ", "b", ";", "[", "a", ",", " ", "b", "]">>

(***************************************************************************)
(* The Schema Normalizer: safe identifiers (isValidIdentifier,             *)
(* isReservedWord, toSafeIdentifier), deriveOperations and normalizeNode.  *)
(***************************************************************************)
LowerCase == <<"a", "b", "c", "d", "e", "f", "g", "h", "i", "j", "k", "l", "m", "n", "o", "p", "q", "r", "s", "t", "u", "v", "w", "x", "y", "z">>

UpperCase == <<"A", "B", "C", "D", "E", "F", "G", "H", "I", "J", "K", "L", "M", "N", "O", "P", "Q", "R", "S", "T", "U", "V", "W", "X", "Y", "Z">>

Digits == <<"0", "1", "2", "3", "4", "5", "6", "7", "8", "9">>

IsLetter(ch) == \E i \in 1..Len(LowerCase) : ch = LowerCase[i] \/ ch = UpperCase[i]

IsDigit(ch) == \E i \in 1..Len(Digits) : ch = Digits[i]

IsAlnum(ch) == IsLetter(ch) \/ IsDigit(ch)

\* p[0].toUpperCase()
ToUpperCase(ch) == IF \E i \in 1..Len(LowerCase) : ch = LowerCase[i] THEN UpperCase[CHOOSE i \in 1..Len(LowerCase) : ch = LowerCase[i]] ELSE ch

ReservedWords == {<<"b", "r", "e", "a", "k">>, <<"c", "a", "s", "e">>, <<"c", "a", "t", "c", "h">>, <<"c", "l", "a", "s", "s">>, <<"c", "o", "n", "s", "t">>, <<"c", "o", "n", "t", "i", "n", "u", "e">>, <<"d", "e", "b", "u", "g", "g", "e", "r">>, <<"d", "e", "f", "a", "u", "l", "t">>, <<"d", "e", "l", "e", "t", "e">>, <<"d", "o">>, <<"e", "l", "s", "e">>, <<"e", "x", "p", "o", "r", "t">>, <<"e", "x", "t", "e", "n", "d", "s">>, <<"f", "i", "n", "a", "l", "l", "y">>, <<"f", "o", "r">>, <<"f", "u", "n", "c", "t", "i", "o", "n">>, <<"i", "f">>, <<"i", "m", "p", "o", "r", "t">>, <<"i", "n">>, <<"i", "n", "s", "t", "a", "n", "c", "e", "o", "f">>, <<"n", "e", "w">>, <<"r", "e", "t", "u", "r", "n">>, <<"s", "u", "p", "e", "r">>, <<"s", "w", "i", "t", "c", "h">>, <<"t", "h", "i", "s">>, <<"t", "h", "r", "o", "w">>, <<"t", "r", "y">>, <<"t", "y", "p", "e", "o", "f">>, <<"v", "a", "r">>, <<"v", "o", "i", "d">>, <<"w", "h", "i", "l", "e">>, <<"w", "i", "t", "h">>, <<"y", "i", "e", "l", "d">>, <<"l", "e", "t">>, <<"e", "n", "u", "m">>, <<"a", "w", "a", "i", "t">>, <<"i", "m", "p", "l", "e", "m", "e", "n", "t", "s">>, <<"p", "a", "c", "k", "a", "g", "e">>, <<"p", "r", "o", "t", "e", "c", "t", "e", "d">>, <<"s", "t", "a", "t", "i", "c">>, <<"i", "n", "t", "e", "r", "f", "a", "c", "e">>, <<"p", "r", "i", "v", "a", "t", "e">>, <<"p", "u", "b", "l", "i", "c">>}

isReservedWord(t) == t \in ReservedWords

\* /^[A-Za-z_$][A-Za-z0-9_$]*$/.test(t) && !isReservedWord(t)
isValidIdentifier(t) == /\ t # <<>>
                        /\ IsLetter(t[1]) \/ t[1] \in {"_", "$"}
                        /\ \A i \in 1..Len(t) : IsAlnum(t[i]) \/ t[i] \in {"_", "$"}
                        /\ ~isReservedWord(t)

\* String(raw).split(/[^A-Za-z0-9]+/g).filter(Boolean): the maximal runs of letters and digits, in order
RunStarts(t) == {i \in 1..Len(t) : IsAlnum(t[i]) /\ (i = 1 \/ ~IsAlnum(t[i - 1]))}

RunEnd(t, i) == Max({j \in i..Len(t) : \A k \in i..j : IsAlnum(t[k])})

RECURSIVE RunsFrom(_, _)
RunsFrom(t, starts) == IF starts = {} THEN <<>> ELSE <<SubSeq(t, Min(starts), RunEnd(t, Min(starts)))>> \o RunsFrom(t, starts \ {Min(starts)})

SplitAlnum(t) == RunsFrom(t, RunStarts(t))

\* parts[0], then each further part with its first letter in upper case; 'op' when there is no part
RECURSIVE CamelRest(_)
CamelRest(parts) == IF parts = <<>> THEN <<>> ELSE <<ToUpperCase(Head(parts)[1])>> \o Tail(Head(parts)) \o CamelRest(Tail(parts))

CamelCase(parts) == IF parts = <<>> THEN <<"o", "p">> ELSE Head(parts) \o CamelRest(Tail(parts))

\* the prefixing of lines 78-81
Prefixed(out) == LET a == IF out = <<>> THEN <<"o", "p">> ELSE out b == IF IsDigit(a[1]) THEN <<"_">> \o a ELSE a c == IF ~(IsLetter(b[1]) \/ b[1] \in {"_", "$"}) THEN <<"_">> \o [i \in 1..Len(b) |-> IF IsAlnum(b[i]) \/ b[i] \in {"_", "$"} THEN b[i] ELSE "_"] ELSE b IN IF isReservedWord(c) THEN <<"_">> \o c ELSE c

\* the decimal digits of a number
RECURSIVE ToText(_)
ToText(n) == IF n < 10 THEN <<Digits[n + 1]>> ELSE ToText(n \div 10) \o <<Digits[(n % 10) + 1]>>

\* the first i from 2 on with out_i unused
RECURSIVE FirstFree(_, _, _)
FirstFree(out, used, i) == IF out \o <<"_">> \o ToText(i) \in used THEN FirstFree(out, used, i + 1) ELSE i

\* toSafeIdentifier(raw, used): the identifier, and the used set after it
toSafeIdentifier(raw, used) == LET out == Prefixed(CamelCase(SplitAlnum(raw))) unique == IF out \notin used THEN out ELSE out \o <<"_">> \o ToText(FirstFree(out, used, 2)) IN [id |-> unique, used |-> used \cup {unique}]

Null == "null"

\* the implicit operation of a node without an operation list
RunOp == [raw |-> <<"r", "u", "n">>, call |-> <<"r", "u", "n">>, path |-> <<"r", "u", "n">>]

OP_SELECTOR_FALLBACK == <<"o", "p", "e", "r", "a", "t", "i", "o", "n">>

\* String(a?.[field] ?? '')
RawOf(a, field) == IF field \in DOMAIN a THEN a[field] ELSE <<>>

\* the map over the raw operation ids with one used set, and filter(Boolean)
RECURSIVE Operations(_, _)
Operations(raws, used) == IF raws = <<>> THEN <<>> ELSE IF Head(raws) = <<>> THEN Operations(Tail(raws), used) ELSE IF isValidIdentifier(Head(raws)) THEN <<[raw |-> Head(raws), call |-> Head(raws), path |-> Head(raws)]>> \o Operations(Tail(raws), used) ELSE CHOOSE out \in {<<[raw |-> Head(raws), call |-> r.id, path |-> Head(raws)]>> \o Operations(Tail(raws), r.used) : r \in {toSafeIdentifier(Head(raws), used)}} : TRUE

RawsOf(entries, field) == [i \in 1..Len(entries) |-> RawOf(entries[i], field)]

\* first.type && Array.isArray(first.options) && first.name
IsSelector(first) == /\ "type" \in DOMAIN first /\ "options" \in DOMAIN first /\ "name" \in DOMAIN first
                     /\ first.type # <<>> /\ first.name # <<>>

deriveOperations(node) == LET actions == IF "actions" \in DOMAIN node THEN node.actions ELSE <<>> IN IF actions = <<>> THEN [opKey |-> Null, operations |-> <<RunOp>>, actionParams |-> <<>>, operationSelector |-> Null] ELSE IF IsSelector(actions[1]) THEN [opKey |-> actions[1].name, operations |-> Operations(RawsOf(actions[1].options, "name"), {}), actionParams |-> actions, operationSelector |-> actions[1]] ELSE IF "operation" \in DOMAIN actions[1] THEN [opKey |-> OP_SELECTOR_FALLBACK, operations |-> Operations(RawsOf(actions, "operation"), {}), actionParams |-> <<>>, operationSelector |-> Null] ELSE IF "name" \in DOMAIN actions[1] THEN [opKey |-> OP_SELECTOR_FALLBACK, operations |-> Operations(RawsOf(actions, "name"), {}), actionParams |-> <<>>, operationSelector |-> Null] ELSE [opKey |-> Null, operations |-> <<RunOp>>, actionParams |-> actions, operationSelector |-> Null]

(***************************************************************************)
(* deriveOperations on its own: a node of one of the shapes, with raw      *)
(* operation ids from a small set.                                         *)
(***************************************************************************)
MaxOps == 2

\* raw operation ids: two valid identifiers, two ids that need conversion, a reserved word, and an empty id
RawIds == {<<"g", "e", "t">>, <<"g", "e", "t", "U", "s", "e", "r">>, <<"g", "e", "t", "-", "u", "s", "e", "r">>, <<"g", "e", "t", " ", "u", "s", "e", "r">>, <<"n", "e", "w">>, <<>>}

Shapes == {"selector", "operation", "name", "none", "other"}

\* a node of the shape with the raw ids
NodeOf(shape, raws) == IF shape = "selector" THEN [name |-> <<"n">>, actions |-> <<[name |-> <<"o", "p">>, type |-> <<"o", "p", "t", "i", "o", "n", "s">>, options |-> [i \in 1..Len(raws) |-> [name |-> raws[i]]]]>>] ELSE IF shape = "operation" THEN [name |-> <<"n">>, actions |-> [i \in 1..Len(raws) |-> [operation |-> raws[i]]]] ELSE IF shape = "name" THEN [name |-> <<"n">>, actions |-> [i \in 1..Len(raws) |-> [name |-> raws[i]]]] ELSE IF shape = "other" THEN [name |-> <<"n">>, actions |-> [i \in 1..Len(raws) |-> [label |-> raws[i]]]] ELSE [name |-> <<"n">>]

InitDerive == /\ InitText("derive")
              /\ specs = <<>>
              /\ \E shape \in Shapes, raws \in SeqsUpTo(RawIds, MaxOps) : tx = [phase |-> "node", shape |-> shape, raws |-> raws, node |-> NodeOf(shape, raws), out |-> Null]

\* deriveOperations(node)
TxDerive == /\ host = "derive" /\ tx.phase = "node"
            /\ tx' = [tx EXCEPT !.phase = "derived", !.out = deriveOperations(tx.node)]
            /\ UNCHANGED <<specs, nodeRegistry, storage, call, host, lastCall, live, lastSetBy, rc>>

NextDerive == TxDerive

SpecDerive == InitDerive /\ [][NextDerive]_vars

\* the call names of the derived operations
CallNames(ops) == [i \in 1..Len(ops) |-> ops[i].call]

\* C13: the call names of the operations derived for one node are pairwise distinct, in each shape and also when raw ids repeat or convert to the same identifier
C13_CallNamesDistinct == tx.phase = "derived" => Distinct(CallNames(tx.out.operations))

(***************************************************************************)
(* normalizeNode, use and useNodesRegistry on the registry of Specs and    *)
(* the node registry.                                                      *)
(***************************************************************************)
\* normalizeNode returns null
NoEntry == [null |-> TRUE]

\* Map.prototype.get
MapGet(m, k) == IF \E i \in 1..Len(m) : m[i][1] = k THEN m[CHOOSE i \in 1..Len(m) : m[i][1] = k][2] ELSE NoEntry

\* encodeURIComponent on the characters of the node names used here: letters, digits and - _ . ! ~ * ' ( ) stay, the others are percent-encoded
PercentCode(ch) == IF ch = " " THEN <<"%", "2", "0">> ELSE IF ch = "/" THEN <<"%", "2", "F">> ELSE IF ch = "?" THEN <<"%", "3", "F">> ELSE IF ch = "$" THEN <<"%", "2", "4">> ELSE <<ch>>

RECURSIVE encodeURIComponent(_)
encodeURIComponent(t) == IF t = <<>> THEN <<>> ELSE PercentCode(Head(t)) \o encodeURIComponent(Tail(t))

normalizeNode(node) == IF RawOf(node, "name") = <<>> THEN NoEntry ELSE CHOOSE entry \in {[rawName |-> RawOf(node, "name"), sdkName |-> IF isValidIdentifier(RawOf(node, "name")) THEN RawOf(node, "name") ELSE toSafeIdentifier(RawOf(node, "name"), {}).id, type |-> IF "type" \in DOMAIN node THEN node.type ELSE Undefined, opKey |-> d.opKey, operationSelector |-> d.operationSelector, operations |-> d.operations, actionParams |-> d.actionParams, methods |-> d.operations, schema |-> node] : d \in {deriveOperations(node)}} : TRUE

\* a registry whose push replaces a Spec of the same name
PushReplacing(list, spec) == IF \E i \in 1..Len(list) : list[i].name = spec.name THEN [i \in 1..Len(list) |-> IF list[i].name = spec.name THEN spec ELSE list[i]] ELSE Append(list, spec)

\* specs.push(spec)
Push(list, spec) == Append(list, spec)

\* entry.methods.map(m => ({ call: m.call, path: m.path }))
CallAndPath(methods) == [i \in 1..Len(methods) |-> Method(methods[i].call, methods[i].path)]

Skip(acc) == [acc EXCEPT !.results.skipped = @ + 1]

Register(acc, entry, base) == [specs |-> Push(acc.specs, BuildSpec(entry.sdkName, CallAndPath(entry.methods), base \o <<"/">> \o encodeURIComponent(entry.rawName))), reg |-> [bySdkName |-> MapSet(acc.reg.bySdkName, entry.sdkName, entry), byRawName |-> MapSet(acc.reg.byRawName, entry.rawName, entry)], results |-> [registered |-> acc.results.registered + 1, skipped |-> acc.results.skipped, nodes |-> Append(acc.results.nodes, entry)]]

\* one iteration of the loop over the node records
IngestNode(acc, node, base, include) == CHOOSE out \in {IF entry = NoEntry THEN Skip(acc) ELSE IF ~include /\ entry.type # "action" THEN Skip(acc) ELSE Register(acc, entry, base) : entry \in {normalizeNode(node)}} : TRUE

RECURSIVE IngestAll(_, _, _, _)
IngestAll(acc, nodes, base, include) == IF nodes = <<>> THEN acc ELSE CHOOSE out \in {IngestAll(a, Tail(nodes), base, include) : a \in {IngestNode(acc, Head(nodes), base, include)}} : TRUE

\* useNodesRegistry(nodes, endpoint, {includeNonActionNodes: include}) on a registry of Specs and a node registry: both after the call, and the returned results
useNodesRegistry(list, reg, nodes, endpoint, include) == IngestAll([specs |-> list, reg |-> reg, results |-> [registered |-> 0, skipped |-> 0, nodes |-> <<>>]], nodes, StripTrailingSlash(endpoint), include)

MaxNodes == 2

MaxRegistered == 3

\* node records: an action node whose name needs conversion, an action node and a trigger node (without operation list) of the name the conversion gives, a record without a name
Nodes == {[name |-> <<"m", "y", " ", "n", "o", "d", "e">>, type |-> "action", actions |-> <<[operation |-> <<"g", "e", "t">>]>>], [name |-> <<"m", "y", "N", "o", "d", "e">>, type |-> "action", actions |-> <<[name |-> <<"g", "e", "t">>], [name |-> <<"g", "e", "t", "-", "a", "l", "l">>]>>], [name |-> <<"m", "y", "N", "o", "d", "e">>, type |-> "trigger"], [type |-> "action"]}

NodeArrays == SeqsUpTo(Nodes, MaxNodes)

Endpoints == {<<"h", "/">>}

\* use({name: 'myNode', methods: ['get']}, 'g')
DirectUses == {[name |-> <<"m", "y", "N", "o", "d", "e">>, methods |-> <<Method(<<"g", "e", "t">>, <<"g", "e", "t">>)>>, endpoint |-> <<"g">>]}

\* the scripts rewritten against the registry
Probes == {<<"m", "y", "N", "o", "d", "e", ".", "g", "e", "t", "(", ")">>, <<"m", "y", "N", "o", "d", "e", ".", "g", "e", "t", "A", "l", "l", "(", ")">>, <<"m", "y", "N", "o", "d", "e", ".", "r", "u", "n", "(", ")">>}

InitRegistry == /\ InitText("registry")
                /\ specs = <<>>
                /\ tx = [phase |-> "start"]

\* use(spec, endpoint)
RgUse(a) == /\ host = "registry" /\ Len(specs) < MaxRegistered
            /\ specs' = Push(specs, BuildSpec(a.name, a.methods, a.endpoint))
            /\ tx' = [phase |-> "used", before |-> specs]
            /\ UNCHANGED <<nodeRegistry, storage, call, host, lastCall, live, lastSetBy, rc>>

\* useNodesRegistry(nodes, endpoint, options)
RgUseNodesRegistry(nodes, endpoint, include) == /\ host = "registry" /\ Len(specs) + Len(nodes) <= MaxRegistered
                                                /\ \E r \in {useNodesRegistry(specs, nodeRegistry, nodes, endpoint, include)} : specs' = r.specs /\ nodeRegistry' = r.reg /\ tx' = [phase |-> "ingested", nodes |-> nodes, endpoint |-> endpoint, include |-> include, before |-> specs, results |-> r.results]
                                                /\ UNCHANGED <<storage, call, host, lastCall, live, lastSetBy, rc>>

\* useNodesRegistry with something that is not an array throws before it registers anything
RgNotAnArray == /\ host = "registry" /\ tx.phase # "threw"
                /\ tx' = [phase |-> "threw", before |-> specs]
                /\ UNCHANGED <<specs, nodeRegistry, storage, call, host, lastCall, live, lastSetBy, rc>>

\* transform(code) against the registry
RgTransform(code) == /\ host = "registry"
                     /\ tx' = [phase |-> "rewritten", before |-> specs, code |-> code, out |-> transform(code)]
                     /\ UNCHANGED <<specs, nodeRegistry, storage, call, host, lastCall, live, lastSetBy, rc>>

NextRegistry == \/ \E a \in DirectUses : RgUse(a)
                \/ \E nodes \in NodeArrays, endpoint \in Endpoints, include \in BOOLEAN : RgUseNodesRegistry(nodes, endpoint, include)
                \/ RgNotAnArray
                \/ \E code \in Probes : RgTransform(code)

SpecRegistry == InitRegistry /\ [][NextRegistry]_vars

\* every Spec registered before the step is still there, unmodified and at its position
KeepsRegistered == Len(specs') >= Len(specs) /\ SubSeq(specs', 1, Len(specs)) = specs

\* the step appends one Spec per registration, in registration order: one for use, one per returned node for useNodesRegistry, none otherwise
AppendsInOrder == /\ tx'.phase = "used" => Len(specs') = Len(specs) + 1
                  /\ tx'.phase \in {"threw", "rewritten"} => specs' = specs
                  /\ tx'.phase = "ingested" => Len(specs') = Len(specs) + Len(tx'.results.nodes)
                  /\ tx'.phase = "ingested" => \A i \in 1..Len(tx'.results.nodes) : specs'[Len(specs) + i].name = tx'.results.nodes[i].sdkName /\ specs'[Len(specs) + i].base = StripTrailingSlash(tx'.endpoint) \o <<"/">> \o encodeURIComponent(tx'.results.nodes[i].rawName)

\* Spec i is the earliest Spec with pattern j's text, and j its first pattern with that text
EarliestPattern(i, j) == EarliestWith(i, PatternLiteral(specs[i].name, specs[i].patterns[j].callPath)) /\ \A k \in 1..(j - 1) : specs[i].patterns[k].callPath # specs[i].patterns[j].callPath

\* a rewritten call without arguments is the request to the base of the earliest Spec with its name and call path
RewrittenToEarliest == tx.phase = "rewritten" => \A i \in 1..Len(specs) : \A j \in 1..Len(specs[i].patterns) : (tx.code = PatternLiteral(specs[i].name, specs[i].patterns[j].callPath) \o <<"(", ")">> /\ EarliestPattern(i, j)) => tx.out = Lit_fetch \o specs[i].base \o <<"/">> \o specs[i].patterns[j].urlPath \o Lit_close

\* C14: the registry of Specs is append-only and ordered: each use or useNodesRegistry call keeps every registered Spec unmodified at its position and appends the new Specs in registration order (the same node ingested again appends another Spec), and a call matched by several Specs of one name and call path is rewritten to the base of the earliest
C14_AppendOnlyOrdered == [][KeepsRegistered /\ AppendsInOrder /\ RewrittenToEarliest']_vars

\* the same node was ingested twice, a later Spec of the same name and call path has another base, and a call was rewritten to the base of the earlier one
C14_Witness == /\ tx.phase = "rewritten" /\ tx.code = <<"m", "y", "N", "o", "d", "e", ".", "g", "e", "t", "(", ")">>
               /\ \E a, b \in 1..Len(specs) : a < b /\ specs[a] = specs[b]
               /\ \E i, k \in 1..Len(specs) : i < k /\ specs[i].name = specs[k].name /\ specs[i].base # specs[k].base /\ EarliestWith(i, <<"m", "y", "N", "o", "d", "e", ".", "g", "e", "t">>) /\ (\E j \in 1..Len(specs[k].patterns) : specs[k].patterns[j].callPath = <<"g", "e", "t">>) /\ tx.out = Lit_fetch \o specs[i].base \o <<"/">> \o <<"g", "e", "t">> \o Lit_close

\* the counts and the list that useNodesRegistry returned add up, and one Spec was appended per registered node
Accounted == tx.phase = "ingested" => (tx.results.registered + tx.results.skipped = Len(tx.nodes) /\ Len(tx.results.nodes) = tx.results.registered /\ Len(specs) = Len(tx.before) + tx.results.registered)

\* the node registry holds the entry under its sdkName and under its rawName
Held(entry) == MapGet(nodeRegistry.bySdkName, entry.sdkName) = entry /\ MapGet(nodeRegistry.byRawName, entry.rawName) = entry

\* C15: for any array of node records useNodesRegistry returns registered + skipped = the number of records and a nodes list of length registered, appends one Spec per registered node, and afterwards every returned NodeEntry is the entry the node registry holds under its sdkName and under its rawName
C15_Ingestion == Accounted /\ (tx.phase = "ingested" => \A i \in 1..Len(tx.results.nodes) : Held(tx.results.nodes[i]))

\* the last returned entry with the sdkName, and with the rawName, of returned entry i
LastOfSdkName(i) == tx.results.nodes[Max({j \in 1..Len(tx.results.nodes) : tx.results.nodes[j].sdkName = tx.results.nodes[i].sdkName})]

LastOfRawName(i) == tx.results.nodes[Max({j \in 1..Len(tx.results.nodes) : tx.results.nodes[j].rawName = tx.results.nodes[i].rawName})]

\* C15 (amended): the counts add up and one Spec is appended per registered node; under each returned entry's sdkName the node registry holds the last returned entry of that sdkName, and under its rawName the last returned entry of that rawName
C15_IngestionLastWins == Accounted /\ (tx.phase = "ingested" => \A i \in 1..Len(tx.results.nodes) : MapGet(nodeRegistry.bySdkName, tx.results.nodes[i].sdkName) = LastOfSdkName(i) /\ MapGet(nodeRegistry.byRawName, tx.results.nodes[i].rawName) = LastOfRawName(i))

\* one call registered two entries of one sdkName and different rawNames: the node registry holds the second under the sdkName and each under its rawName
C15_Witness == /\ tx.phase = "ingested" /\ tx.results.registered = 2 /\ Len(tx.nodes) = 2
               /\ tx.results.nodes[1].sdkName = tx.results.nodes[2].sdkName /\ tx.results.nodes[1].rawName # tx.results.nodes[2].rawName
               /\ MapGet(nodeRegistry.bySdkName, tx.results.nodes[1].sdkName) = tx.results.nodes[2]
               /\ MapGet(nodeRegistry.byRawName, tx.results.nodes[1].rawName) = tx.results.nodes[1]
               /\ Len(specs) = Len(tx.before) + 2

(***************************************************************************)
(* Isolation of task ids, and concurrent resumes of one id.                *)
(***************************************************************************)
\* caller p's call takes the step
Steps(p) == call'[p] # call[p]

\* the step changes what is stored or recorded for the id
Touches(id) == \/ Present(id)' # Present(id)
               \/ StorageGet(storage', id) # StorageGet(storage, id)
               \/ lastSetBy'[id] # lastSetBy[id]
               \/ lastCall'[id] # lastCall[id]

\* the step is the one in which caller p's resume receives what storage.get returned
Loads(p) == call'[p].got /\ ~call[p].got

\* C18: a run or resume call for an id reads, writes and deletes only the storage entry of that id: every step belongs to one call, leaves the frames of all other calls alone, changes the storage entry and the recorded outcome of no id but that call's, and what a resume loads is the entry of its own id
C18_TaskIsolation == [][/\ \A p, q \in Callers : (Steps(p) /\ Steps(q)) => p = q
                        /\ \A id \in TaskIds : Touches(id) => \E p \in Callers : Steps(p) /\ call'[p].id = id
                        /\ \A p \in Callers : Loads(p) => call'[p].stored = StorageGet(storage, call'[p].id)]_vars

\* a run paused on one id and wrote its snapshot, a run and a resume on another id went through set and del, and the first id still holds the snapshot its own run wrote
C18_Witness == \E p, q \in Callers : /\ call[p].id # call[q].id /\ Returned(p) /\ Returned(q)
                                     /\ call[p].op = "run" /\ call[p].out.status = "paused"
                                     /\ call[q].op = "resume" /\ call[q].out.status = "done" /\ call[q].nDel = 1
                                     /\ ~Present(call[q].id) /\ Present(call[p].id)
                                     /\ storage[call[p].id] = call[p].wrote /\ lastSetBy[call[p].id] = p

\* resumes p and q of one id have returned, p with a terminal status and q paused, and q's set settled after p's del
TerminalThenPaused(p, q) == /\ p # q /\ Returned(p) /\ Returned(q)
                            /\ call[p].op = "resume" /\ call[q].op = "resume" /\ call[p].id = call[q].id
                            /\ call[p].out.kind = "return" /\ call[p].out.status \in {"done", "error"} /\ call[p].nDel = 1
                            /\ call[q].out.kind = "return" /\ call[q].out.status = "paused"
                            /\ lastSetBy[call[q].id] = q

\* C19: when of two concurrent resumes of one id one has returned done or error and deleted the snapshot, and the other then pauses and sets, storage holds the snapshot of the second: storage.get(id) returns it and a further resume of the id is not refused as not found, although a terminal result was returned for the id
C19_SnapshotAfterTerminal == \A p, q \in Callers : TerminalThenPaused(p, q) => (Present(call[q].id) /\ StorageGet(storage, call[q].id) = call[q].wrote /\ ~NotFound(StorageGet(storage, call[q].id)))

\* the interleaving get(1), get(2), call 1 completes and deletes, call 2 pauses and sets: both loaded the snapshot of the run, and the snapshot of call 2 is stored after call 1 returned done or error
C19_Witness == \E p, q \in Callers : /\ TerminalThenPaused(p, q)
                                     /\ call[p].stored = call[q].stored /\ call[p].stored # Undef /\ call[q].wrote # call[q].stored
                                     /\ Present(call[q].id) /\ storage[call[q].id] = call[q].wrote
                                     /\ lastCall[call[q].id] = [op |-> "resume", status |-> "paused"]

====
